---- MODULE Spec2Model ----
(***************************************************************************)
(* A model of contextual_retrieval.ipynb: the Contextual Enricher          *)
(* (LlamaIndexContextualEnrichment.__call__), the Hybrid Retriever         *)
(* (LlamaIndexEmbeddingBM25RerankerRetriever._retrieve), gold-set          *)
(* generation (generate_question_context_pairs) and the evaluation of the *)
(* four retrievers (aevaluate_dataset, llama_index_evaluation_print_       *)
(* results, pd.concat).                                                    *)
(*                                                                         *)
(* The notebook's collaborators (requests, html2text, the LLM, the two     *)
(* sub-retrievers, ColbertRerank, the llama-index metrics) are modelled by *)
(* what they hand back to the notebook's code; what they may answer is     *)
(* drawn from small sets.                                                  *)
(***************************************************************************)
EXTENDS Integers, Sequences, FiniteSets, TLC

VARIABLES
    \* ---- Contextual Enricher (one __call__) ----
    nodes,               \* the input list of chunks
    web_page_content,    \* the per-run cache: source url -> converted text
    node_current_index,  \* 1-based position of the chunk being enriched
    nodes_new,           \* the output list under construction
    source_url,          \* the loop's local: url of the last SOURCE seen
    e_pc,                \* "idle" | "loop" | "returned" | "raised"
    e_error,             \* the exception that ended the run, or "none"
    fetch_count,         \* number of requests.get calls per url in this run
    \* ---- Hybrid Retriever ----
    vecIndex,            \* what the vector sub-retriever answers per query
    bm25Index,           \* what the BM25 sub-retriever answers per query
    origIndex,           \* what the retriever over the unenriched index answers
    rerankScore,         \* the reranker's score per (query, chunk)
    r_pc,                \* "idle" | "returned" | "raised"
    r_query,             \* the query of the last call
    vector_returned,     \* the list as the vector sub-retriever returned it
    vector_nodes,        \* that same list object when the call ended
    bm25_nodes,          \* the list the BM25 sub-retriever returned
    rerank_input,        \* what the reranker was called with
    retrieved_nodes,     \* what the call returned
    r_error,             \* the exception that ended the call
    r_ran,               \* the stages the last call ran
    first_result,        \* per query, what its first completed call returned
    r_repeat,            \* whether the last call's query had completed before
    \* ---- gold set and evaluation ----
    g_nodes,             \* the ids of the chunks of the unenriched split
    g_pc,                \* "idle" | "loop" | "returned" | "raised"
    g_index,             \* position of the chunk whose questions are generated
    g_responses,         \* the LLM's answer per chunk so far
    g_warnings,          \* warnings emitted
    g_error,             \* the exception that ended generation
    dataset,             \* the gold set: QAPairs in generation order
    ev_pc,               \* evaluation cells run so far (0..5)
    results,             \* per retriever, its list of evaluation results
    table                \* the concatenated result table

enrichVars == <<nodes, web_page_content, node_current_index, nodes_new,
                source_url, e_pc, e_error, fetch_count>>
indexVars  == <<vecIndex, bm25Index, origIndex, rerankScore>>
callVars   == <<r_pc, r_query, vector_returned, vector_nodes, bm25_nodes,
                rerank_input, retrieved_nodes, r_error, r_ran, first_result,
                r_repeat>>
goldVars   == <<g_nodes, g_pc, g_index, g_responses, g_warnings, g_error>>
evalVars   == <<ev_pc, results, table>>
vars == <<enrichVars, indexVars, callVars, goldVars, dataset, evalVars>>
notEnrich == <<indexVars, callVars, goldVars, dataset, evalVars>>
notRetrieve == <<enrichVars, goldVars, dataset, evalVars>>
notGold == <<enrichVars, indexVars, callVars, evalVars>>
notEval == <<enrichVars, indexVars, callVars, goldVars, dataset>>

----------------------------------------------------------------------------
(* Program constants.                                                      *)

LLAMA_INDEX_RETRIEVAL_TOP_K == 5
LLAMA_INDEX_SAMPLE_DATA_NUM_QUESTIONS_PER_CHUNK == 2
\* LLAMA_INDEX_INGESTION_DOCUMENTS holds two urls
NumDocs == 2
LLAMA_INDEX_RETRIEVAL_EVALUATION_METRICS == <<"hit_rate", "mrr", "recall">>

(* Bounds of the model.                                                    *)
MaxNodes == 3
NumChunks == 3
MaxLines == 3

Docs == 1..NumDocs
NoSource == 0        \* a chunk whose relationships hold no SOURCE entry
Unbound == 0         \* source_url before its first assignment
Texts == {"t1", "t2"}

----------------------------------------------------------------------------
(*                        Contextual Enricher                              *)

NoContext == [kind |-> "absent", doc |-> 0, chunk |-> ""]
\* a "context" entry a chunk may carry before it is enriched
OldContext == [kind |-> "text", doc |-> 0, chunk |-> "old"]

\* the identity of a chunk object: the i-th object made by the splitter, or the
\* object copy.deepcopy made of it
Object(by, i) == [by |-> by, n |-> i]

\* requests.get(url).text: the page as fetched
requests_get(url) == [format |-> "html", url |-> url]

\* html2text.html2text(html): the page converted to plain text
html2text(page) == [format |-> "text", url |-> page.url]

\* Settings.llm.complete(prompt).text: an answer about the prompt's document
\* and chunk, or the empty string
complete(prompt, answer) ==
    IF answer = "empty"
    THEN [kind |-> "empty", doc |-> 0, chunk |-> ""]
    ELSE [kind |-> "text", doc |-> prompt.document.url, chunk |-> prompt.chunk]

\* the scan of new_node.relationships for NodeRelationship.SOURCE: source_url
\* is assigned only when a SOURCE entry is found
SourceOf(node, previous) ==
    IF node.src # NoSource THEN node.src ELSE previous

\* NeedsFetch without the look into the cache
NeedsFetchAlways(node, cache) == node.src # NoSource

\* `if node_id not in web_page_content`, reached only under a SOURCE entry
NeedsFetch(node, cache) ==
    node.src # NoSource /\ node.src \notin DOMAIN cache

\* CachePut that starts the dict anew
CachePutAlone(cache, url) == [d \in {url} |-> html2text(requests_get(url))]

\* the two assignments to web_page_content[node_id]: the page as fetched, then
\* its conversion in its place
CachePut(cache, url) ==
    [d \in DOMAIN cache \cup {url} |->
        IF d = url THEN html2text(requests_get(url)) ELSE cache[d]]

\* new_node = node: another name for the same object
alias(node) == node

\* copy.deepcopy(node): a new object with the fields of node
deepcopy(node) == [node EXCEPT !.obj = Object("deepcopy", node.obj.n)]

\* new_node.metadata['context'] = ...: the write is seen through every list
\* that holds the object
set_context(list, obj, context) ==
    [i \in DOMAIN list |->
        IF list[i].obj = obj THEN [list[i] EXCEPT !.context = context]
        ELSE list[i]]

\* the call starts: web_page_content = {}, node_current_index = 1,
\* nodes_new = []; an empty input returns at once
EnrichCall ==
    /\ e_pc \in {"idle", "returned", "raised"}
    /\ web_page_content' = [d \in {} |-> html2text(requests_get(d))]
    /\ node_current_index' = 1
    /\ nodes_new' = <<>>
    /\ source_url' = Unbound
    /\ fetch_count' = [d \in Docs |-> 0]
    /\ e_error' = "none"
    /\ e_pc' = IF Len(nodes) = 0 THEN "returned" ELSE "loop"
    /\ UNCHANGED <<nodes, notEnrich>>

\* one iteration of `for node in nodes`
EnrichNode ==
    /\ e_pc = "loop"
    /\ \E fetchOk \in BOOLEAN, answer \in {"text", "empty", "error"} :
        LET node == nodes[node_current_index]
            new_node == deepcopy(node)
            fetch == NeedsFetch(new_node, web_page_content)
            url == SourceOf(new_node, source_url)
            counted == IF fetch
                       THEN [fetch_count EXCEPT ![node.src] = @ + 1]
                       ELSE fetch_count
        IN  \/ \* requests.get raises: the exception leaves __call__
               /\ fetch /\ ~fetchOk
               /\ e_pc' = "raised"
               /\ e_error' = "RequestException"
               /\ fetch_count' = counted
               /\ source_url' = url
               /\ UNCHANGED <<nodes, web_page_content, node_current_index,
                              nodes_new>>
            \/ \* no SOURCE seen yet: web_page_content[source_url] reads an
               \* unassigned local
               /\ ~fetch /\ url = Unbound
               /\ e_pc' = "raised"
               /\ e_error' = "UnboundLocalError"
               /\ UNCHANGED <<nodes, web_page_content, node_current_index,
                              nodes_new, source_url, fetch_count>>
            \/ /\ (fetch => fetchOk) /\ url # Unbound
               /\ LET cache == IF fetch
                               THEN CachePut(web_page_content, node.src)
                               ELSE web_page_content
                      whole_document == cache[url]
                      prompt == [document |-> whole_document,
                                 chunk |-> new_node.text]
                  IN  /\ web_page_content' = cache
                      /\ fetch_count' = counted
                      /\ source_url' = url
                      /\ \/ \* Settings.llm.complete raises
                            /\ answer = "error"
                            /\ e_pc' = "raised"
                            /\ e_error' = "LLMError"
                            /\ UNCHANGED <<nodes, node_current_index,
                                           nodes_new>>
                         \/ /\ answer # "error"
                            /\ nodes' = set_context(nodes, new_node.obj,
                                            complete(prompt, answer))
                            /\ nodes_new' = set_context(
                                  Append(nodes_new, new_node), new_node.obj,
                                  complete(prompt, answer))
                            /\ node_current_index' = node_current_index + 1
                            /\ e_error' = "none"
                            /\ e_pc' = IF node_current_index = Len(nodes)
                                       THEN "returned" ELSE "loop"
    /\ UNCHANGED notEnrich

ChunkSeqs(n) ==
    [1..n -> [text : Texts, src : Docs \cup {NoSource},
              context : {NoContext, OldContext}]]

InitEnrich ==
    /\ \E n \in 0..MaxNodes : \E f \in ChunkSeqs(n) :
          nodes = [i \in 1..n |->
                     [id |-> i, obj |-> Object("split", i),
                      text |-> f[i].text, src |-> f[i].src,
                      context |-> f[i].context]]
    /\ web_page_content = [d \in {} |-> html2text(requests_get(d))]
    /\ node_current_index = 1
    /\ nodes_new = <<>>
    /\ source_url = Unbound
    /\ e_pc = "idle"
    /\ e_error = "none"
    /\ fetch_count = [d \in Docs |-> 0]

IdleEnrich ==
    /\ nodes = <<>>
    /\ web_page_content = [d \in {} |-> html2text(requests_get(d))]
    /\ node_current_index = 1
    /\ nodes_new = <<>>
    /\ source_url = Unbound
    /\ e_pc = "idle"
    /\ e_error = "none"
    /\ fetch_count = [d \in Docs |-> 0]

----------------------------------------------------------------------------
(*                          Hybrid Retriever                               *)

ChunkIds == 1..NumChunks
Queries == {"q1", "q2"}
\* the reranker tells relevant (1) from not relevant (0)
Scores == {0, 1}
Min(a, b) == IF a < b THEN a ELSE b

NoScore == -1
NoError == [type |-> "none", raised_by |-> "none"]

\* a sub-retriever's answer: NodeWithScore objects, best first, built anew on
\* every call from the ids the index ranks for the query
Hits(ids) ==
    [p \in 1..Len(ids) |->
        [id |-> ids[p], score |-> Len(ids) - p, retrieval_score |-> NoScore]]

\* self._vector_retriever.retrieve(query_bundle)
VectorRetrieve(q) == Hits(vecIndex[q])

\* self.bm25_retriever.retrieve(query_bundle)
BM25Retrieve(q) == Hits(bm25Index[q])

\* sorted(nodes, key=score, reverse=True): stable, equal scores keep their order
RECURSIVE SortedByScore(_)
SortedByScore(ns) ==
    IF ns = <<>> THEN <<>>
    ELSE LET rest == SortedByScore(SubSeq(ns, 1, Len(ns) - 1))
             x == ns[Len(ns)]
             \* x goes after every element whose score is at least its own
             k == Cardinality({p \in 1..Len(rest) : rest[p].score >= x.score})
         IN  SubSeq(rest, 1, k) \o <<x>> \o SubSeq(rest, k + 1, Len(rest))

\* ColbertRerank(top_n=LLAMA_INDEX_RETRIEVAL_TOP_K, keep_retrieval_score=True)
\* .postprocess_nodes(nodes, query_bundle): every node gets the reranker's score
\* (its retrieval score kept aside), the nodes are sorted by it, best first, and
\* cut to top_n
postprocess_nodes(ns, q) ==
    LET scored == [p \in 1..Len(ns) |->
                     [id |-> ns[p].id,
                      score |-> rerankScore[q][ns[p].id],
                      retrieval_score |-> ns[p].score]]
        sorted == SortedByScore(scored)
    IN  SubSeq(sorted, 1, Min(Len(sorted), LLAMA_INDEX_RETRIEVAL_TOP_K))

\* Extend that leaves out the BM25 candidates the vector list already holds
ExtendDistinct(vector_list, bm25_list) ==
    LET IsNew(n) == \A p \in 1..Len(vector_list) : vector_list[p].id # n.id
    IN  vector_list \o SelectSeq(bm25_list, IsNew)

\* vector_nodes.extend(bm25_nodes): the vector list, grown in place
Extend(vector_list, bm25_list) == vector_list \o bm25_list

\* RetrieveResult that returns the combined candidates as they are
RetrieveUnranked(vector_list, bm25_list, q) == Extend(vector_list, bm25_list)

\* RetrieveResult that extends the list left by the call before
RetrieveAccumulating(vector_list, bm25_list, q) ==
    postprocess_nodes(
        Extend(IF vector_nodes = <<>> THEN vector_list ELSE vector_nodes,
               bm25_list), q)

\* what _retrieve returns when no stage raises
RetrieveResult(vector_list, bm25_list, q) ==
    postprocess_nodes(Extend(vector_list, bm25_list), q)

Seen(fr, q, res) ==
    [fr EXCEPT ![q] = IF @.set THEN @ ELSE [set |-> TRUE, val |-> res]]

\* one call of _retrieve; an exception of a stage leaves the call as it is
Retrieve ==
    /\ \E q \in Queries, outcome \in {"vector", "bm25", "reranker", "ok"} :
        /\ r_query' = q
        /\ r_repeat' = first_result[q].set
        /\ \/ /\ outcome = "vector"
              /\ r_pc' = "raised"
              /\ r_error' = [type |-> "Exception", raised_by |-> "vector"]
              /\ r_ran' = {"vector"}
              /\ vector_returned' = <<>>
              /\ vector_nodes' = <<>>
              /\ bm25_nodes' = <<>>
              /\ rerank_input' = <<>>
              /\ retrieved_nodes' = <<>>
              /\ UNCHANGED first_result
           \/ /\ outcome = "bm25"
              /\ r_pc' = "raised"
              /\ r_error' = [type |-> "Exception", raised_by |-> "bm25"]
              /\ r_ran' = {"vector", "bm25"}
              /\ vector_returned' = VectorRetrieve(q)
              /\ vector_nodes' = VectorRetrieve(q)
              /\ bm25_nodes' = <<>>
              /\ rerank_input' = <<>>
              /\ retrieved_nodes' = <<>>
              /\ UNCHANGED first_result
           \/ /\ outcome = "reranker"
              /\ r_pc' = "raised"
              /\ r_error' = [type |-> "Exception", raised_by |-> "reranker"]
              /\ r_ran' = {"vector", "bm25", "reranker"}
              /\ vector_returned' = VectorRetrieve(q)
              /\ vector_nodes' = Extend(VectorRetrieve(q), BM25Retrieve(q))
              /\ bm25_nodes' = BM25Retrieve(q)
              /\ rerank_input' = Extend(VectorRetrieve(q), BM25Retrieve(q))
              /\ retrieved_nodes' = <<>>
              /\ UNCHANGED first_result
           \/ /\ outcome = "ok"
              /\ r_pc' = "returned"
              /\ r_error' = NoError
              /\ r_ran' = {"vector", "bm25", "reranker"}
              /\ vector_returned' = VectorRetrieve(q)
              /\ vector_nodes' = Extend(VectorRetrieve(q), BM25Retrieve(q))
              /\ bm25_nodes' = BM25Retrieve(q)
              /\ rerank_input' = Extend(VectorRetrieve(q), BM25Retrieve(q))
              /\ retrieved_nodes' =
                    RetrieveResult(VectorRetrieve(q), BM25Retrieve(q), q)
              /\ first_result' = Seen(first_result, q,
                    RetrieveResult(VectorRetrieve(q), BM25Retrieve(q), q))
    /\ UNCHANGED <<indexVars, notRetrieve>>

\* a sub-retriever answers with at most similarity_top_k distinct chunks
MaxHits == Min(NumChunks, LLAMA_INDEX_RETRIEVAL_TOP_K)

Rankings ==
    UNION {{s \in [1..n -> ChunkIds] : \A i, j \in 1..n : i # j => s[i] # s[j]}
           : n \in 0..MaxHits}

Shift(q) == IF q = "q1" THEN 0 ELSE 1

Rotate(s, k) ==
    IF Len(s) = 0 THEN s
    ELSE [p \in 1..Len(s) |-> s[((p - 1 + k) % Len(s)) + 1]]

Reverse(s) == [p \in 1..Len(s) |-> s[Len(s) + 1 - p]]

\* The index is built once by the pipeline and never changes.  Chunk ids are
\* interchangeable, so the first query's vector ranking is <<1, .., nv>>; its
\* BM25 ranking and the reranker's scores are free.  The other query sees the
\* rankings rotated and the scores shifted; the unenriched index ranks the
\* vector hits in the opposite order.
InitIndex ==
    \E nv \in 0..MaxHits, l \in Rankings, s \in [ChunkIds -> Scores] :
        /\ vecIndex = [q \in Queries |-> Rotate([p \in 1..nv |-> p], Shift(q))]
        /\ bm25Index = [q \in Queries |-> Rotate(l, Shift(q))]
        /\ origIndex = [q \in Queries |->
                          Reverse(Rotate([p \in 1..nv |-> p], Shift(q)))]
        /\ rerankScore = [q \in Queries |->
                            [c \in ChunkIds |-> (s[c] + Shift(q)) % 2]]

IdleIndex ==
    /\ vecIndex = [q \in Queries |-> <<>>]
    /\ bm25Index = [q \in Queries |-> <<>>]
    /\ origIndex = [q \in Queries |-> <<>>]
    /\ rerankScore = [q \in Queries |-> [c \in ChunkIds |-> 0]]

IdleCall ==
    /\ r_pc = "idle"
    /\ r_query = "none"
    /\ vector_returned = <<>>
    /\ vector_nodes = <<>>
    /\ bm25_nodes = <<>>
    /\ rerank_input = <<>>
    /\ retrieved_nodes = <<>>
    /\ r_error = NoError
    /\ r_ran = {}
    /\ first_result = [q \in Queries |-> [set |-> FALSE, val |-> <<>>]]
    /\ r_repeat = FALSE

----------------------------------------------------------------------------
(*                       Gold-set generation                               *)

\* what the LLM may answer for one chunk: up to MaxLines lines, each blank, a
\* numbered question ("1. ...") or a question without a number
Lines == {"blank", "numbered", "bare"}
Responses == UNION {[1..n -> Lines] : n \in 0..MaxLines}

\* str(response).strip().split("\n"), the leading number removed from each line,
\* empty lines dropped: the positions of the lines that hold a question
RECURSIVE QuestionLines(_, _)
QuestionLines(resp, p) ==
    IF p > Len(resp) THEN <<>>
    ELSE IF resp[p] = "blank" THEN QuestionLines(resp, p + 1)
    ELSE <<p>> \o QuestionLines(resp, p + 1)

\* [:num_questions_per_chunk]
FirstN(s, n) == SubSeq(s, 1, Min(Len(s), n))

\* the QAPairs of one chunk: queries[question_id] = question,
\* relevant_docs[question_id] = [node_id]
PairsOf(chunk, resp) ==
    LET qs == FirstN(QuestionLines(resp, 1),
                     LLAMA_INDEX_SAMPLE_DATA_NUM_QUESTIONS_PER_CHUNK)
    IN  [k \in 1..Len(qs) |->
            [question |-> [chunk |-> chunk, line |-> qs[k]],
             expected_ids |-> <<chunk>>]]

\* generate_question_context_pairs(nodes=llama_index_documents_split, ...) starts
GoldCall ==
    /\ g_pc \in {"idle", "returned", "raised"}
    /\ g_index' = 1
    /\ g_responses' = <<>>
    /\ g_warnings' = 0
    /\ g_error' = "none"
    /\ dataset' = <<>>
    /\ g_pc' = IF Len(g_nodes) = 0 THEN "returned" ELSE "loop"
    /\ UNCHANGED <<g_nodes, notGold>>

\* one chunk: one llm.complete call, its answer parsed into QAPairs; fewer
\* questions than asked for is a warning, more are cut
GoldNode ==
    /\ g_pc = "loop"
    /\ \/ \E resp \in Responses :
            LET pairs == PairsOf(g_nodes[g_index], resp)
            IN  /\ g_responses' = Append(g_responses, resp)
                /\ g_warnings' =
                      IF Len(pairs) < LLAMA_INDEX_SAMPLE_DATA_NUM_QUESTIONS_PER_CHUNK
                      THEN g_warnings + 1 ELSE g_warnings
                /\ dataset' = dataset \o pairs
                /\ g_index' = g_index + 1
                /\ g_pc' = IF g_index = Len(g_nodes) THEN "returned" ELSE "loop"
                /\ UNCHANGED g_error
       \/ \* llm.complete raises
          /\ g_pc' = "raised"
          /\ g_error' = "LLMError"
          /\ UNCHANGED <<g_index, g_responses, g_warnings, dataset>>
    /\ UNCHANGED <<g_nodes, notGold>>

InitGold ==
    /\ \E m \in 0..NumChunks : g_nodes = [i \in 1..m |-> i]
    /\ g_pc = "idle"
    /\ g_index = 1
    /\ g_responses = <<>>
    /\ g_warnings = 0
    /\ g_error = "none"
    /\ dataset = <<>>

IdleGold ==
    /\ g_nodes = <<>>
    /\ g_pc = "idle"
    /\ g_index = 1
    /\ g_responses = <<>>
    /\ g_warnings = 0
    /\ g_error = "none"

----------------------------------------------------------------------------
(*                            Evaluation                                   *)

\* exact fractions
Rat(n, d) == [num |-> n, den |-> d]
RatAdd(a, b) == Rat(a.num * b.den + b.num * a.den, a.den * b.den)
RatEq(a, b) == a.num * b.den = b.num * a.den
RatLeq(a, b) == a.num * b.den <= b.num * a.den

Range(s) == {s[p] : p \in 1..Len(s)}
IdsOf(ns) == [p \in 1..Len(ns) |-> ns[p].id]

\* hit_rate: 1 if an expected id is among the retrieved ids
HitRate(expected_ids, retrieved_ids) ==
    IF Range(retrieved_ids) \cap Range(expected_ids) # {} THEN Rat(1, 1) ELSE Rat(0, 1)

\* mrr: 1 / the 1-indexed position of the first retrieved id that is expected
MRR(expected_ids, retrieved_ids) ==
    LET hits == {p \in 1..Len(retrieved_ids) : retrieved_ids[p] \in Range(expected_ids)}
    IN  IF hits = {} THEN Rat(0, 1)
        ELSE Rat(1, CHOOSE p \in hits : \A o \in hits : p <= o)

\* recall: |set(retrieved) & set(expected)| / |set(expected)|
Recall(expected_ids, retrieved_ids) ==
    Rat(Cardinality(Range(retrieved_ids) \cap Range(expected_ids)),
        Cardinality(Range(expected_ids)))

\* the question as a query against the index
QueryOf(question) == IF question.line % 2 = 1 THEN "q1" ELSE "q2"

Retrievers == <<"retriever-original", "retriever-enriched",
                "retriever-enriched-bm25", "retriever-enriched-hybrid">>

\* retriever.retrieve(query) of the retriever each evaluator was built with
RetrieveWith(name, q) ==
    CASE name = "retriever-original" -> Hits(origIndex[q])
      [] name = "retriever-enriched" -> VectorRetrieve(q)
      [] name = "retriever-enriched-bm25" -> BM25Retrieve(q)
      [] name = "retriever-enriched-hybrid" ->
            RetrieveResult(VectorRetrieve(q), BM25Retrieve(q), q)

\* RetrieverEvaluator.evaluate for one QAPair: a RetrievalEvalResult
EvalResult(name, pair) ==
    LET retrieved_ids == IdsOf(RetrieveWith(name, QueryOf(pair.question)))
    IN  [query |-> pair.question,
         expected_ids |-> pair.expected_ids,
         retrieved_ids |-> retrieved_ids,
         metric_vals_dict |->
            [hit_rate |-> HitRate(pair.expected_ids, retrieved_ids),
             mrr |-> MRR(pair.expected_ids, retrieved_ids),
             recall |-> Recall(pair.expected_ids, retrieved_ids)]]

\* aevaluate_dataset: one result per QAPair, in the dataset's order
EvaluateDatasetWith(name) ==
    [j \in 1..Len(dataset) |-> EvalResult(name, dataset[j])]

\* cells 5a..5d in the notebook's order: the k-th evaluator runs over the gold set
EvaluateDataset ==
    /\ ev_pc \in 0..3
    /\ results' = [results EXCEPT ![Retrievers[ev_pc + 1]] =
                      EvaluateDatasetWith(Retrievers[ev_pc + 1])]
    /\ ev_pc' = ev_pc + 1
    /\ UNCHANGED <<table, notEval>>

RECURSIVE ColumnSum(_, _, _)
ColumnSum(eval_results, k, n) ==
    IF n = 0 THEN Rat(0, 1)
    ELSE RatAdd(ColumnSum(eval_results, k, n - 1),
                eval_results[n].metric_vals_dict[k])

ColumnTotal(eval_results, k) == ColumnSum(eval_results, k, Len(eval_results))

\* full_df[k].mean()
ColumnMean(eval_results, k) ==
    LET total == ColumnSum(eval_results, k, Len(eval_results))
    IN  Rat(total.num, total.den * Len(eval_results))

\* llama_index_evaluation_print_results with .sum() for .mean()
print_results_totals(name, eval_results) ==
    [c \in {"retrievers"} \cup Range(LLAMA_INDEX_RETRIEVAL_EVALUATION_METRICS) |->
        IF c = "retrievers" THEN name ELSE ColumnTotal(eval_results, c)]

\* llama_index_evaluation_print_results(name, eval_results): a one-row frame
llama_index_evaluation_print_results(name, eval_results) ==
    [c \in {"retrievers"} \cup Range(LLAMA_INDEX_RETRIEVAL_EVALUATION_METRICS) |->
        IF c = "retrievers" THEN name ELSE ColumnMean(eval_results, c)]

\* cell 6: pd.concat of the four one-row frames
PrintResults ==
    /\ ev_pc = 4
    /\ table' = [r \in 1..Len(Retrievers) |->
                   llama_index_evaluation_print_results(
                       Retrievers[r], results[Retrievers[r]])]
    /\ ev_pc' = 5
    /\ UNCHANGED <<results, notEval>>

\* the gold set a generation run leaves: every chunk with the same number of
\* questions, between 1 and the number asked for
InitDataset ==
    \E per \in 1..LLAMA_INDEX_SAMPLE_DATA_NUM_QUESTIONS_PER_CHUNK :
        dataset = [j \in 1..(NumChunks * per) |->
                     [question |-> [chunk |-> ((j - 1) \div per) + 1,
                                    line |-> ((j - 1) % per) + 1],
                      expected_ids |-> <<((j - 1) \div per) + 1>>]]

IdleEval ==
    /\ ev_pc = 0
    /\ results = [r \in Range(Retrievers) |-> <<>>]
    /\ table = <<>>

----------------------------------------------------------------------------
(*                          Specifications                                 *)

InitSpecEnrich ==
    InitEnrich /\ IdleIndex /\ IdleCall /\ IdleGold /\ dataset = <<>> /\ IdleEval

NextEnrich == EnrichCall \/ EnrichNode

SpecEnrich == InitSpecEnrich /\ [][NextEnrich]_vars

InitSpecRetrieve ==
    IdleEnrich /\ InitIndex /\ IdleCall /\ IdleGold /\ dataset = <<>> /\ IdleEval

NextRetrieve == Retrieve

SpecRetrieve == InitSpecRetrieve /\ [][NextRetrieve]_vars

InitSpecGold ==
    IdleEnrich /\ IdleIndex /\ IdleCall /\ InitGold /\ IdleEval

NextGold == GoldCall \/ GoldNode

SpecGold == InitSpecGold /\ [][NextGold]_vars

InitSpecEval ==
    IdleEnrich /\ InitIndex /\ IdleCall /\ IdleGold /\ InitDataset /\ IdleEval

NextEval == EvaluateDataset \/ PrintResults

SpecEval == InitSpecEval /\ [][NextEval]_vars

----------------------------------------------------------------------------
(*                              Claims                                     *)

\* C1: a completed run of the Enricher returns as many chunks as it was given,
\* the i-th output being the i-th input with the same text and a non-empty
\* "context" value.
C1_CompletedRunEnrichesEveryChunk ==
    e_pc = "returned" =>
        /\ Len(nodes_new) = Len(nodes)
        /\ \A i \in 1..Len(nodes_new) :
              /\ nodes_new[i].id = nodes[i].id
              /\ nodes_new[i].text = nodes[i].text
              /\ nodes_new[i].context.kind = "text"

\* C2: a chunk with no SOURCE relationship never gets through enrichment (the
\* run raises for it, wherever it stands in the input), and no chunk carries a
\* context generated from another chunk's document.
C2_UnresolvedSourceFailsLoudly ==
    \A i \in 1..Len(nodes_new) :
        /\ nodes[i].src # NoSource
        /\ nodes_new[i].context.kind = "text" =>
              nodes_new[i].context.doc = nodes[i].src

\* C3: within one run every source document is fetched at most once, however
\* the chunks of different documents are interleaved, and every enriched chunk
\* that names a source was situated in the cached text of that document.
C3_FetchAtMostOncePerRun ==
    /\ \A d \in Docs : fetch_count[d] <= 1
    /\ \A d \in DOMAIN web_page_content : fetch_count[d] = 1
    /\ \A i \in 1..Len(nodes_new) :
          (nodes[i].src # NoSource /\ nodes_new[i].context.kind = "text") =>
              /\ nodes[i].src \in DOMAIN web_page_content
              /\ nodes_new[i].context.doc = web_page_content[nodes[i].src].url

\* a run that went d, d', d over three chunks and returned: the third chunk was
\* served from the cache
C3_Witness ==
    /\ e_pc = "returned"
    /\ Len(nodes) = 3
    /\ nodes[1].src # NoSource /\ nodes[2].src # NoSource
    /\ nodes[1].src # nodes[2].src
    /\ nodes[3].src = nodes[1].src
    /\ nodes_new[3].context.kind = "text"
    /\ fetch_count[nodes[1].src] = 1

\* C4: a failed fetch of a source document does not end the batch: no run is
\* ended by the fetch's exception.
C4_FetchFailureDoesNotEndBatch ==
    ~(e_pc = "raised" /\ e_error = "RequestException")

Sorted(ns) ==
    \A i, j \in 1..Len(ns) : i < j => ns[i].score >= ns[j].score

HasDuplicateIds(ns) ==
    \E i, j \in 1..Len(ns) : i # j /\ ns[i].id = ns[j].id

\* C5: a completed hybrid retrieve call returns at most top-N results, their
\* scores non-increasing from first to last.
C5_AtMostTopNSortedByScore ==
    r_pc = "returned" =>
        /\ Len(retrieved_nodes) <= LLAMA_INDEX_RETRIEVAL_TOP_K
        /\ Sorted(retrieved_nodes)

\* overlapping candidate lists that together exceed top-N, cut to top-N, with
\* both scores among the results
C5_Witness ==
    /\ r_pc = "returned"
    /\ HasDuplicateIds(rerank_input)
    /\ Len(rerank_input) > LLAMA_INDEX_RETRIEVAL_TOP_K
    /\ Len(retrieved_nodes) = LLAMA_INDEX_RETRIEVAL_TOP_K
    /\ retrieved_nodes[1].score # retrieved_nodes[Len(retrieved_nodes)].score

C7_SubRetrieverFailureIsRetrievalError ==
    (r_pc = "raised" /\ r_error.raised_by \in {"vector", "bm25"}) =>
        /\ retrieved_nodes = <<>>
        /\ "reranker" \notin r_ran
        /\ r_error.type = "RetrievalError"

\* C8: every result list scored has at most K ids, and against its gold id
\* hit_rate is 0 or 1, mrr is 0 or 1/k for the position k (1 <= k <= K) of the
\* first occurrence of the gold id, and mrr >= hit_rate / K; so also for hybrid
\* results that hold a chunk id twice.
C8_MetricRanges ==
    \A name \in Range(Retrievers) : \A j \in 1..Len(results[name]) :
        LET e == results[name][j]
            K == LLAMA_INDEX_RETRIEVAL_TOP_K
            gold == e.expected_ids[1]
            at == {p \in 1..Len(e.retrieved_ids) : e.retrieved_ids[p] = gold}
            hit == e.metric_vals_dict.hit_rate
            mrr == e.metric_vals_dict.mrr
        IN  /\ Len(e.retrieved_ids) <= K
            /\ IF at = {}
               THEN RatEq(hit, Rat(0, 1)) /\ RatEq(mrr, Rat(0, 1))
               ELSE /\ RatEq(hit, Rat(1, 1))
                    /\ \E k \in 1..K :
                          /\ k \in at
                          /\ \A p \in at : k <= p
                          /\ RatEq(mrr, Rat(1, k))
            /\ RatLeq(Rat(hit.num, hit.den * K), mrr)

\* a hybrid result that holds its gold id twice, first at the second place
C8_Witness ==
    \E j \in 1..Len(results["retriever-enriched-hybrid"]) :
        LET e == results["retriever-enriched-hybrid"][j]
        IN  /\ Cardinality({p \in 1..Len(e.retrieved_ids) :
                              e.retrieved_ids[p] = e.expected_ids[1]}) = 2
            /\ e.retrieved_ids[1] # e.expected_ids[1]
            /\ RatEq(e.metric_vals_dict.mrr, Rat(1, 2))

PairsFor(chunk) == {j \in 1..Len(dataset) : dataset[j].expected_ids = <<chunk>>}

\* C9: generation over M chunks yields N QAPairs per chunk, N*M in all, and an
\* answer with a number of question lines other than N raises a ParseError.
C9_ExactlyNPerChunkOrParseError ==
    /\ g_pc = "returned" =>
          /\ Len(dataset) =
                LLAMA_INDEX_SAMPLE_DATA_NUM_QUESTIONS_PER_CHUNK * Len(g_nodes)
          /\ \A i \in 1..Len(g_nodes) :
                Cardinality(PairsFor(g_nodes[i])) =
                    LLAMA_INDEX_SAMPLE_DATA_NUM_QUESTIONS_PER_CHUNK
    /\ (\E i \in 1..Len(g_responses) :
           Len(QuestionLines(g_responses[i], 1)) #
               LLAMA_INDEX_SAMPLE_DATA_NUM_QUESTIONS_PER_CHUNK)
          => (g_pc = "raised" /\ g_error = "ParseError")

\* C10: the printed table has four rows, one per retriever, each with the three
\* configured metrics, each value the arithmetic mean of that metric over all
\* QAPairs of the gold set and within [0, 1].
C10_FourGroupsOfMeans ==
    ev_pc = 5 =>
        /\ Len(table) = 4
        /\ \A r \in 1..Len(table) :
              /\ table[r]["retrievers"] = Retrievers[r]
              /\ DOMAIN table[r] = {"retrievers", "hit_rate", "mrr", "recall"}
              /\ Len(results[Retrievers[r]]) = Len(dataset)
              /\ \A k \in {"hit_rate", "mrr", "recall"} :
                    LET v == table[r][k]
                    IN  /\ RatLeq(Rat(0, 1), v) /\ RatLeq(v, Rat(1, 1))
                        /\ v.den > 0
                        /\ RatEq(Rat(v.num * Len(dataset), v.den),
                                 ColumnTotal(results[Retrievers[r]], k))
        /\ \A r1, r2 \in 1..Len(table) :
              table[r1]["retrievers"] = table[r2]["retrievers"] => r1 = r2

\* a printed table whose hybrid row holds a mean strictly between 0 and 1 and
\* differs from the original retriever's
C10_Witness ==
    /\ ev_pc = 5
    /\ Len(dataset) >= 2
    /\ ~RatLeq(table[4]["mrr"], Rat(0, 1))
    /\ ~RatLeq(Rat(1, 1), table[4]["mrr"])
    /\ ~RatEq(table[4]["mrr"], table[1]["mrr"])

Count(ns, c) == Cardinality({p \in 1..Len(ns) : ns[p].id = c})

\* C11: every hybrid retrieve call runs the vector sub-retrieval and, the vector
\* one having returned (whatever it returned), the lexical sub-retrieval; when
\* both have returned the reranker is run on exactly the vector candidates
\* followed by the lexical candidates, none removed (a chunk id returned by both
\* is there twice), and with the query of the call.
C11_BothRunRerankerGetsConcatenation ==
    r_pc \in {"returned", "raised"} =>
        /\ "vector" \in r_ran
        /\ r_error.raised_by # "vector" => "bm25" \in r_ran
        /\ r_error.raised_by \notin {"vector", "bm25"} =>
              /\ "reranker" \in r_ran
              /\ rerank_input = VectorRetrieve(r_query) \o BM25Retrieve(r_query)
              /\ \A c \in ChunkIds :
                    Count(rerank_input, c) =
                        Count(VectorRetrieve(r_query), c)
                            + Count(BM25Retrieve(r_query), c)
        /\ r_pc = "returned" =>
              retrieved_nodes = postprocess_nodes(rerank_input, r_query)

\* a completed call whose sub-retrievers both returned some chunk: the reranker
\* was given it twice, first as the vector candidate
C11_Witness ==
    /\ r_pc = "returned"
    /\ r_ran = {"vector", "bm25", "reranker"}
    /\ \E c \in ChunkIds :
          /\ Count(vector_returned, c) = 1
          /\ Count(bm25_nodes, c) = 1
          /\ Count(rerank_input, c) = 2
    /\ Len(rerank_input) = Len(vector_returned) + Len(bm25_nodes)
    /\ Len(vector_returned) > 0
    /\ rerank_input[1] = vector_returned[1]

\* C12: no step of the Enricher changes an input chunk ("context" entry or any
\* other field); every output chunk is an object of its own, distinct from
\* every input chunk and every other output, and equal to the input chunk at
\* its position in everything but the "context" entry; so after a completed
\* run every QAPair built from an unenriched chunk names the id of an enriched
\* chunk.
C12_InputUnchangedOutputsAreCopies ==
    /\ [][nodes' = nodes]_vars
    /\ [](\A i \in 1..Len(nodes_new) :
            /\ nodes_new[i] = [nodes[i] EXCEPT
                                  !.obj = nodes_new[i].obj,
                                  !.context = nodes_new[i].context]
            /\ \A j \in 1..Len(nodes) : nodes_new[i].obj # nodes[j].obj
            /\ \A j \in 1..Len(nodes_new) :
                  i # j => nodes_new[i].obj # nodes_new[j].obj)
    /\ [](e_pc = "returned" =>
            \A i \in 1..Len(nodes) :
                LET answer ==
                        [k \in 1..LLAMA_INDEX_SAMPLE_DATA_NUM_QUESTIONS_PER_CHUNK
                            |-> "numbered"]
                    pairs == PairsOf(nodes[i].id, answer)
                IN  \A k \in 1..Len(pairs) :
                        \E j \in 1..Len(nodes_new) :
                            nodes_new[j].id = pairs[k].expected_ids[1])

\* a completed run over a chunk without a "context" entry and a chunk with one:
\* the outputs carry the generated contexts, the inputs are as they were
C12_Witness ==
    /\ e_pc = "returned"
    /\ Len(nodes) >= 2
    /\ nodes[1].context = NoContext
    /\ nodes[2].context = OldContext
    /\ nodes_new[1].context.kind = "text"
    /\ nodes_new[2].context.kind = "text"
    /\ nodes_new[2].context # OldContext
    /\ nodes_new[1].obj # nodes[1].obj

====
